---- MODULE Spec2Model ----
(***************************************************************************)
(* Model of the distractor-generation and math-validation engine of        *)
(* xmlfixer: PotionImprover (attached_assets/potion_improver_*.py, the     *)
(* batch path) and DistractorImprover (server/distractor-improver.py, the  *)
(* single-question path).                                                  *)
(*                                                                         *)
(* Python strings are sequences of one-character strings, so that          *)
(* substring tests, regular-expression scans, lower(), int() and f-string  *)
(* formatting are computed on characters as the code computes them.        *)
(***************************************************************************)
EXTENDS Integers, Sequences, FiniteSets, TLC

VARIABLES
    pc,                \* position of the running call
    question_text,     \* the question's text
    numbers,           \* the list of numbers handed to / extracted by a call
    correct_answer,    \* the correct answer's text
    grade,             \* the question's grade
    choices,           \* the record's current choice texts
    distractors,       \* generate_smart_distractors: the candidate pool (a set)
    offset,            \* generate_smart_distractors: the last random.choice
    distractor_list,   \* generate_smart_distractors: list(distractors)
    final_distractors, \* generate_smart_distractors: the 3 selected values
    variant,           \* "batch": PotionImprover, "server": DistractorImprover
    result,            \* the value the call returned
    domain,            \* improve_question: the record's domain
    standard,          \* improve_question: the record's standard
    seen_questions,    \* PotionImprover.seen_questions
    new_question,      \* improve_question: what it returned
    calls,             \* history: the (text, choices) of the improve_question calls so far
    entry,             \* single question: the function the caller entered
    stdin,             \* single question: what main() finds on stdin / is handed
    response           \* single question: the response handed to the caller

batchVars == <<domain, standard, seen_questions, new_question, calls>>

serverVars == <<entry, stdin, response>>

vars == <<pc, question_text, numbers, correct_answer, grade, choices,
          distractors, offset, distractor_list, final_distractors, variant, result,
          batchVars, serverVars>>

----------------------------------------------------------------------------
(* Bounds of the model *)

\* longest text, in vocabulary entries, handed to the classifier
MaxWords == 2
\* longest list of numbers handed to the classifier
MaxNums == 3
\* most choices of a record handed to the triviality detector
MaxChoices == 5

\* distinct (text, choices) pairs handed to one PotionImprover
MaxCalls == 3

----------------------------------------------------------------------------
(* Characters and strings *)

UpperChars == <<"A","B","C","D","E","F","G","H","I","J","K","L","M","N","O","P","Q","R","S","T","U","V","W","X","Y","Z">>
LowerChars == <<"a","b","c","d","e","f","g","h","i","j","k","l","m","n","o","p","q","r","s","t","u","v","w","x","y","z">>
DigitChars == <<"0","1","2","3","4","5","6","7","8","9">>

Range(s) == {s[i] : i \in 1..Len(s)}

IsDigit(ch) == ch \in Range(DigitChars)

\* \w of the re module, on the characters the model uses
IsWordChar(ch) == ch \in Range(UpperChars) \cup Range(LowerChars) \cup Range(DigitChars) \cup {"_"}

IsSpace(ch) == ch = " "

\* str.lower() on one character
LowerChar(ch) ==
    IF ch \in Range(UpperChars)
    THEN LowerChars[CHOOSE i \in 1..Len(UpperChars) : UpperChars[i] = ch]
    ELSE ch

\* str.lower()
Lower(s) == [i \in 1..Len(s) |-> LowerChar(s[i])]

\* the operator `sub in s` of Python strings
In(sub, s) ==
    \E i \in 1..(Len(s) - Len(sub) + 1) : SubSeq(s, i, i + Len(sub) - 1) = sub

\* any(word in s for word in words)
AnyIn(words, s) == \E k \in 1..Len(words) : In(words[k], s)

\* int(digits) of a run of decimal digits
RECURSIVE IntOf(_)
IntOf(ds) ==
    IF ds = <<>> THEN 0
    ELSE 10 * IntOf(SubSeq(ds, 1, Len(ds) - 1))
         + ((CHOOSE i \in 1..10 : DigitChars[i] = ds[Len(ds)]) - 1)

\* str(n) of an integer
RECURSIVE StrOfNat(_)
StrOfNat(n) ==
    IF n < 10 THEN <<DigitChars[n + 1]>>
    ELSE StrOfNat(n \div 10) \o <<DigitChars[(n % 10) + 1]>>

StrOf(n) == IF n < 0 THEN <<"-">> \o StrOfNat(-n) ELSE StrOfNat(n)

\* the end of the maximal run of digits that starts at position i
RECURSIVE RunEnd(_, _)
RunEnd(s, i) ==
    IF i < Len(s) /\ IsDigit(s[i + 1]) THEN RunEnd(s, i + 1) ELSE i

\* re.findall(r'\d+', s): the maximal runs of digits, left to right
RECURSIVE DigitRunsFrom(_, _)
DigitRunsFrom(s, i) ==
    IF i > Len(s) THEN <<>>
    ELSE IF IsDigit(s[i])
         THEN <<SubSeq(s, i, RunEnd(s, i))>> \o DigitRunsFrom(s, RunEnd(s, i) + 1)
         ELSE DigitRunsFrom(s, i + 1)

DigitRuns(s) == DigitRunsFrom(s, 1)

\* re.findall(r'\b\d+\b', s): a run of digits matches when a word boundary
\* stands on both of its sides; inside a run there is no boundary, so only a
\* maximal run with no word character next to it matches
RECURSIVE WordNumbersFrom(_, _)
WordNumbersFrom(s, i) ==
    IF i > Len(s) THEN <<>>
    ELSE IF IsDigit(s[i])
         THEN LET j == RunEnd(s, i)
                  left == i = 1 \/ ~IsWordChar(s[i - 1])
                  right == j = Len(s) \/ ~IsWordChar(s[j + 1])
              IN  (IF left /\ right THEN <<SubSeq(s, i, j)>> ELSE <<>>)
                  \o WordNumbersFrom(s, j + 1)
         ELSE WordNumbersFrom(s, i + 1)

extract_numbers(text) ==
    LET ms == WordNumbersFrom(text, 1)
    IN  [k \in 1..Len(ms) |-> IntOf(ms[k])]

----------------------------------------------------------------------------
(* Python values *)

None == <<>>
Some(v) == <<v>>

\* the text of an XML element with no text: Python's None where a string is
\* expected; re.findall raises TypeError on it
NoneText == <<"None">>

\* a returned pair (value, tag), or an exception that left the call
Returned(v, tag) == [value |-> v, tag |-> tag, exc |-> ""]
Raised(e) == [value |-> None, tag |-> "", exc |-> e]

RECURSIVE Sum(_)
Sum(ns) == IF ns = <<>> THEN 0 ELSE Head(ns) + Sum(Tail(ns))

MaxOf(ns) == CHOOSE m \in Range(ns) : \A x \in Range(ns) : x <= m
MinOf(ns) == CHOOSE m \in Range(ns) : \A x \in Range(ns) : m <= x

Abs(x) == IF x < 0 THEN -x ELSE x

----------------------------------------------------------------------------
(* Operation classifier *)

AddWords == <<<<"a","d","d">>, <<"a","d","d","s">>, <<"p","l","u","s">>, <<"t","o","t","a","l">>, <<"t","o","g","e","t","h","e","r">>, <<"s","u","m">>,
              <<"a","l","t","o","g","e","t","h","e","r">>, <<"c","o","m","b","i","n","e","d">>, <<"m","o","r","e">>>>
SubWords == <<<<"s","u","b","t","r","a","c","t">>, <<"m","i","n","u","s">>, <<"l","e","f","t">>, <<"r","e","m","a","i","n","i","n","g">>, <<"d","i","f","f","e","r","e","n","c","e">>,
              <<"f","e","w","e","r">>, <<"l","e","s","s">>, <<"n","e","e","d">>, <<"n","e","e","d","s">>>>
MulWords == <<<<"m","u","l","t","i","p","l","y">>, <<"t","i","m","e","s">>, <<"e","a","c","h">>, <<"p","e","r">>, <<"g","r","o","u","p","s"," ","o","f">>,
              <<"n","e","e","d","e","d">>, <<"t","o","t","a","l">>>>
DivWords == <<<<"d","i","v","i","d","e">>, <<"s","p","l","i","t">>, <<"e","q","u","a","l","l","y">>, <<"s","h","a","r","e">>, <<"g","r","o","u","p","s">>,
              <<"e","a","c","h"," ","g","r","o","u","p">>, <<"e","v","e","n","l","y">>, <<"a","m","o","n","g">>, <<"b","r","e","w">>, <<"m","a","k","e">>>>

\* the subtraction branch: max - min for the "how many more" framing
SubtractionValue(text_lower, ns) ==
    IF In(<<"h","o","w"," ","m","a","n","y"," ","m","o","r","e">>, text_lower)
       \/ (In(<<"h","o","w"," ","m","a","n","y">>, text_lower) /\ In(<<"n","e","e","d">>, text_lower))
    THEN MaxOf(ns) - MinOf(ns)
    ELSE ns[1] - ns[2]

\* the division branch without its guard: ZeroDivisionError leaves the call
DivisionUnguarded(ns) ==
    IF ns[2] = 0 THEN Raised("ZeroDivisionError")
    ELSE Returned(Some(ns[1] \div ns[2]), "division")

DivisionBranch(ns) ==
    IF ns[2] # 0 THEN Returned(Some(ns[1] \div ns[2]), "division")
    ELSE Returned(None, "division_by_zero")

\* the chain tested in the order subtraction, addition, ...
DetectSubtractionFirst(text, ns) ==
    LET text_lower == Lower(text) IN
    IF Len(ns) < 2 THEN Returned(None, "insufficient_numbers")
    ELSE IF AnyIn(SubWords, text_lower)
         THEN Returned(Some(SubtractionValue(text_lower, ns)), "subtraction")
    ELSE IF AnyIn(AddWords, text_lower) THEN Returned(Some(Sum(ns)), "addition")
    ELSE IF AnyIn(MulWords, text_lower) THEN Returned(Some(ns[1] * ns[2]), "multiplication")
    ELSE IF AnyIn(DivWords, text_lower) THEN DivisionBranch(ns)
    ELSE Returned(None, "operation_unclear")

detect_operation_and_calculate(text, ns) ==
    LET text_lower == Lower(text) IN
    IF Len(ns) < 2 THEN Returned(None, "insufficient_numbers")
    ELSE IF AnyIn(AddWords, text_lower) THEN Returned(Some(Sum(ns)), "addition")
    ELSE IF AnyIn(SubWords, text_lower)
         THEN Returned(Some(SubtractionValue(text_lower, ns)), "subtraction")
    ELSE IF AnyIn(MulWords, text_lower) THEN Returned(Some(ns[1] * ns[2]), "multiplication")
    ELSE IF AnyIn(DivWords, text_lower) THEN DivisionBranch(ns)
    ELSE Returned(None, "operation_unclear")

----------------------------------------------------------------------------
(* Inputs *)

\* join of words with single spaces
RECURSIVE Join(_)
Join(ws) ==
    IF ws = <<>> THEN <<>>
    ELSE IF Len(ws) = 1 THEN ws[1]
    ELSE ws[1] \o <<" ">> \o Join(Tail(ws))

SeqsUpTo(set, n) == UNION {[1..k -> set] : k \in 0..n}

\* phrases of question texts: cue words of each category, cues that contain
\* the cue of another category, a capitalised phrase and a word with no cue
CueVocabulary ==
    {<<"t","o","t","a","l">>, <<"e","a","c","h">>, <<"n","e","e","d","e","d">>, <<"H","o","w"," ","m","a","n","y"," ","m","o","r","e">>, <<"h","o","w"," ","m","a","n","y">>,
     <<"n","e","e","d">>, <<"l","e","f","t">>, <<"s","p","l","i","t">>, <<"g","r","o","u","p","s"," ","o","f">>, <<"f","e","a","t","h","e","r","s">>}

ClassifierTexts == {Join(ws) : ws \in SeqsUpTo(CueVocabulary, MaxWords)}

NumberValues == {0, 9, 15}

NumberLists == SeqsUpTo(NumberValues, MaxNums)

NoResult == [value |-> None, tag |-> "pending", exc |-> ""]

\* the variables a specification does not use
IdleTexts == /\ correct_answer = <<>>
             /\ grade = 1
             /\ choices = <<>>

IdleGenerator == /\ distractors = {}
                 /\ offset = 0
                 /\ distractor_list = <<>>
                 /\ final_distractors = <<>>

NoQuestion == [kind |-> "pending"]
NoResponse == [kind |-> "pending"]

IdleBatch == /\ domain = <<>>
             /\ standard = <<>>
             /\ seen_questions = {}
             /\ new_question = NoQuestion
             /\ calls = {}

IdleServer == /\ entry = "none"
              /\ stdin = "none"
              /\ response = NoResponse

----------------------------------------------------------------------------
(* SpecClassify: detect_operation_and_calculate applied to a text and a    *)
(* list of numbers                                                         *)

InitClassify ==
    /\ pc = "classify"
    /\ question_text \in ClassifierTexts
    /\ numbers \in NumberLists
    /\ result = NoResult
    /\ IdleTexts
    /\ IdleGenerator
    /\ variant \in {"batch", "server"}
    /\ IdleBatch
    /\ IdleServer

Classify ==
    /\ pc = "classify"
    /\ result' = detect_operation_and_calculate(question_text, numbers)
    /\ pc' = "classified"
    /\ UNCHANGED <<question_text, numbers, correct_answer, grade, choices,
                   distractors, offset, distractor_list, final_distractors, variant,
                   batchVars, serverVars>>

NextClassify == Classify

SpecClassify == InitClassify /\ [][NextClassify]_vars

----------------------------------------------------------------------------
(* Claims about the classifier, checked under SpecClassify *)

Categories == <<"addition", "subtraction", "multiplication", "division">>
CategoryWords == <<AddWords, SubWords, MulWords, DivWords>>

\* category k has a keyword that occurs in the lowercased text
Matches(k, text) == \E w \in Range(CategoryWords[k]) : In(w, Lower(text))

\* the operation a result stands for: division also when it was refused
SelectedOperation(r) == IF r.tag = "division_by_zero" THEN "division" ELSE r.tag

\* C3: a text containing "how many more", with at least 2 numbers, is
\* classified as subtraction with value max(numbers) - min(numbers),
\* whatever the order of the numbers.
C3_HowManyMoreIsMaxMinusMin ==
    (/\ pc = "classified"
     /\ In(<<"h","o","w"," ","m","a","n","y"," ","m","o","r","e">>, Lower(question_text))
     /\ Len(numbers) >= 2)
    => /\ result.tag = "subtraction"
       /\ \E hi \in Range(numbers), lo \in Range(numbers) :
             /\ \A x \in Range(numbers) : lo <= x /\ x <= hi
             /\ result.value = Some(hi - lo)

\* C4: with at least 2 numbers the operation returned is the first category,
\* in the order addition, subtraction, multiplication, division, one of
\* whose keywords occurs in the lowercased text; no later category is
\* returned when an earlier one matches, and none when no keyword occurs.
C4_FirstMatchWins ==
    (pc = "classified" /\ Len(numbers) >= 2)
    => /\ \A k \in 1..4 :
             (Matches(k, question_text) /\ \A j \in 1..(k - 1) : ~Matches(j, question_text))
             => SelectedOperation(result) = Categories[k]
       /\ (\A k \in 1..4 : ~Matches(k, question_text)) => result.tag = "operation_unclear"
       /\ (In(<<"t","o","t","a","l">>, Lower(question_text)) /\ In(<<"e","a","c","h">>, Lower(question_text)))
             => result.tag = "addition"
       /\ In(<<"n","e","e","d","e","d">>, Lower(question_text)) => result.tag # "multiplication"

\* a text with a cue of addition and a cue of multiplication was classified
C4_Witness ==
    /\ pc = "classified"
    /\ Len(numbers) >= 2
    /\ In(<<"t","o","t","a","l">>, Lower(question_text))
    /\ In(<<"e","a","c","h">>, Lower(question_text))
    /\ result.tag = "addition"

\* division is the first category that matches
DivisionSelected(text) == Matches(4, text) /\ \A j \in 1..3 : ~Matches(j, text)

\* C5: the classifier never raises; its value is absent exactly when there
\* are fewer than 2 numbers (insufficient_numbers), when division is selected
\* with numbers[1] = 0 (division_by_zero), or when no keyword occurs
\* (operation_unclear); division with numbers[1] # 0 gives the floor quotient.
C5_SoftFailures ==
    pc = "classified"
    => LET few == Len(numbers) < 2
           unclear == \A k \in 1..4 : ~Matches(k, question_text)
           byZero == DivisionSelected(question_text) /\ numbers[2] = 0
       IN  /\ result.exc = ""
           /\ few => (result.value = None /\ result.tag = "insufficient_numbers")
           /\ (~few /\ unclear) => (result.value = None /\ result.tag = "operation_unclear")
           /\ (~few /\ byZero) => (result.value = None /\ result.tag = "division_by_zero")
           /\ (result.value = None) <=> (few \/ unclear \/ byZero)
           /\ (~few /\ DivisionSelected(question_text) /\ numbers[2] # 0)
                 => /\ result.tag = "division"
                    /\ \E q \in 0..numbers[1] :
                          /\ q * numbers[2] <= numbers[1]
                          /\ numbers[1] < (q + 1) * numbers[2]
                          /\ result.value = Some(q)

\* division was selected with a zero divisor, and with a non-zero one
C5_Witness ==
    /\ pc = "classified"
    /\ Len(numbers) >= 2
    /\ DivisionSelected(question_text)
    /\ numbers[2] = 0
    /\ result.tag = "division_by_zero"

----------------------------------------------------------------------------
(* Distractor synthesizer: generate_smart_distractors of both classes *)

\* self.grade_limits.get(grade, float('inf')): a finite ceiling or infinity
Ceiling(n) == [finite |-> TRUE, max |-> n]
Infinite == [finite |-> FALSE, max |-> 0]

grade_limits(g) ==
    CASE g = 1 -> Ceiling(20)
      [] g = 2 -> Ceiling(100)
      [] g = 3 -> Ceiling(1000)
      [] g = 4 -> Ceiling(10000)
      [] g = 5 -> Ceiling(100000)
      [] OTHER -> Infinite

\* d <= limit
AtMost(d, limit) == ~limit.finite \/ d <= limit.max

\* the floor quotient of the wrong-operation patterns of addition and
\* subtraction: the single-question class adds it only when n0 >= n1
QuotientPattern(v, n0, n1) ==
    IF v = "batch" \/ n0 >= n1 THEN {n0 \div n1} ELSE {}

\* the candidates of the operation's error patterns (numbers has >= 2 members)
OperationPatterns(v, operation, ns, correct) ==
    LET n0 == ns[1]
        n1 == ns[2]
    IN  CASE operation = "addition" ->
               {Abs(n0 - n1)}
               \cup (IF n1 # 0 THEN {n0 * n1} \cup QuotientPattern(v, n0, n1) ELSE {})
               \cup {correct + 1, correct - 1, n0, n1}
          [] operation = "subtraction" ->
               {n0 + n1}
               \cup (IF n1 # 0 THEN {n0 * n1} \cup QuotientPattern(v, n0, n1) ELSE {})
               \cup {n1 - n0, correct + 1, correct - 1}
          [] operation = "multiplication" ->
               {n0 + n1, Abs(n0 - n1)}
               \cup (IF n1 # 0 THEN {n0 \div n1} ELSE {})
               \cup {correct + n0, correct - n0, n0}
          [] operation = "division" ->
               {n0 + n1, Abs(n0 - n1), n0 * n1, n0, n1, correct + 1}
          [] OTHER -> {}

\* the general error patterns
GeneralPatterns(correct) ==
    {correct + 2, correct - 2, correct * 2}
    \cup (IF correct > 2 THEN {correct \div 2} ELSE {})

\* the pool before "Remove invalid options"
CandidatePool(v, text, ns, correct) ==
    IF Len(ns) >= 2
    THEN OperationPatterns(v, detect_operation_and_calculate(text, ns).tag, ns, correct)
         \cup GeneralPatterns(correct)
    ELSE {}

\* the filter without the test against the ceiling
RemoveInvalidNoCeiling(pool, correct, limit) ==
    {d \in pool \ {correct} : d > 0}

\* distractors.discard(correct); {d for d in distractors if d > 0 and d <= limit}
RemoveInvalid(pool, correct, limit) ==
    {d \in pool \ {correct} : d > 0 /\ AtMost(d, limit)}

\* the offsets of random.choice
Offsets == <<-5, -3, -2, 2, 3, 5, 7>>

\* the test of a backfill candidate
Accepted(candidate, correct, limit) ==
    candidate > 0 /\ candidate # correct /\ AtMost(candidate, limit)

\* the canonical wrong-operation results the selection looks for (the None
\* entries of the list equal no integer)
Canonical(v, ns) ==
    LET n0 == ns[1]
        n1 == ns[2]
    IN  {n0 + n1, Abs(n0 - n1)}
        \cup (IF n1 # 0 THEN {n0 * n1} ELSE {})
        \cup (IF n1 # 0 /\ (v = "batch" \/ n0 >= n1) THEN {n0 \div n1} ELSE {})

Take(lst, n) == SubSeq(lst, 1, IF n < Len(lst) THEN n ELSE Len(lst))

\* [d for d in lst if d in keep]
RECURSIVE Filter(_, _)
Filter(lst, keep) ==
    IF lst = <<>> THEN <<>>
    ELSE (IF Head(lst) \in keep THEN <<Head(lst)>> ELSE <<>>) \o Filter(Tail(lst), keep)

\* the selection with the other values placed before the priority values
SelectOthersFirst(v, ns, lst) ==
    IF Len(ns) >= 2
    THEN LET priority_distractors == Filter(lst, Canonical(v, ns))
             other_distractors == Filter(lst, Range(lst) \ Range(priority_distractors))
         IN  Take(other_distractors \o priority_distractors, 3)
    ELSE Take(lst, 3)

\* "Select best 3 distractors": priority values first, then the others
SelectBest(v, ns, lst) ==
    IF Len(ns) >= 2
    THEN LET priority_distractors == Filter(lst, Canonical(v, ns))
             first == Take(priority_distractors, 3)
             remaining_needed == 3 - Len(first)
             other_distractors == Filter(lst, Range(lst) \ Range(priority_distractors))
         IN  IF remaining_needed > 0
             THEN first \o Take(other_distractors, remaining_needed)
             ELSE first
    ELSE Take(lst, 3)

\* the members of a set in ascending order
RECURSIVE Ascending(_)
Ascending(set) ==
    IF set = {} THEN <<>>
    ELSE LET m == CHOOSE x \in set : \A y \in set : x <= y
         IN  <<m>> \o Ascending(set \ {m})

Injective(n, set) == {f \in [1..n -> set] : \A i, j \in 1..n : f[i] = f[j] => i = j}

\* list(distractors): the iteration order of a set is not fixed.  The
\* selection reads only the first 3 preferred members and the first members
\* of the rest, so the orders are taken up to those prefixes: every order of
\* the set selects what one of these orders selects.
ListOrders(pool, preferred) ==
    LET pri == pool \cap preferred
        k == IF Cardinality(pri) < 3 THEN Cardinality(pri) ELSE 3
        oth == pool \ pri
        r == IF Cardinality(oth) < 3 - k THEN Cardinality(oth) ELSE 3 - k
    IN  {p \o q \o Ascending(pool \ (Range(p) \cup Range(q))) :
            p \in Injective(k, pri), q \in Injective(r, oth)}

\* str.split(): the maximal runs of characters that are not white space
RECURSIVE SplitFrom(_, _, _)
SplitFrom(s, i, word) ==
    IF i > Len(s) THEN (IF word = <<>> THEN <<>> ELSE <<word>>)
    ELSE IF IsSpace(s[i])
         THEN (IF word = <<>> THEN <<>> ELSE <<word>>) \o SplitFrom(s, i + 1, <<>>)
         ELSE SplitFrom(s, i + 1, Append(word, s[i]))

Split(s) == SplitFrom(s, 1, <<>>)

\* str.isdigit()
IsDigits(word) == word # <<>> /\ \A i \in 1..Len(word) : IsDigit(word[i])

unit_patterns == <<<<"g","r","a","m","s">>, <<"m","e","t","e","r","s">>, <<"f","e","a","t","h","e","r","s">>, <<"p","o","t","i","o","n","s">>, <<"b","o","t","t","l","e","s">>,
                   <<"i","n","g","r","e","d","i","e","n","t","s">>, <<"d","r","o","p","s">>, <<"p","a","r","t","s">>>>

StopWords == {<<"c","r","y","s","t","a","l">>, <<"v","i","a","l","s">>, <<"p","h","o","e","n","i","x">>, <<"h","e","a","l","i","n","g">>, <<"t","h","e">>, <<"a">>,
              <<"a","n">>, <<"i","s">>, <<"a","r","e">>}

\* batch: the first pattern of the vocabulary found in the lowercased answer
UnitBatch(answer) ==
    LET found == {k \in 1..Len(unit_patterns) : In(unit_patterns[k], Lower(answer))}
    IN  IF found = {} THEN <<>>
        ELSE <<" ">> \o unit_patterns[CHOOSE k \in found : \A j \in found : k <= j]

\* single question: the first long word that is no number and no stop word
UnitServer(answer) ==
    LET words == Split(answer)
        found == {k \in 1..Len(words) :
                    /\ ~IsDigits(words[k])
                    /\ words[k] \notin StopWords
                    /\ Len(words[k]) > 2}
    IN  IF found = {} THEN <<>>
        ELSE <<" ">> \o Lower(words[CHOOSE k \in found : \A j \in found : k <= j])

Unit(v, answer) == IF v = "batch" THEN UnitBatch(answer) ELSE UnitServer(answer)

\* f"{d}{unit}"
Format(d, unit) == StrOf(d) \o unit

\* the choices before the shuffle: batch puts the correct value first
FormattedChoices(v, correct, finals, answer) ==
    LET unit == Unit(v, answer)
        ds == [k \in 1..Len(finals) |-> Format(finals[k], unit)]
    IN  IF v = "batch" THEN <<Format(correct, unit)>> \o ds ELSE ds

ShuffleOrders(n) == Injective(n, 1..n)

\* the correct value of a call
CorrectOf(answer) == extract_numbers(answer)[1]

ReturnedNone == [kind |-> "None", choices |-> <<>>]
ReturnedList(cs) == [kind |-> "list", choices |-> cs]

----------------------------------------------------------------------------
(* Spec: one call of generate_smart_distractors *)


\* question texts: no number, one number, two or three numbers with the cue
\* of each operation, a zero divisor, a larger second number, and a digit
\* run inside a word (no number by \b\d+\b)
GeneratorTexts ==
    {<<"f","e","a","t","h","e","r","s">>, <<"1","2"," ","l","e","f","t">>, <<"1","2"," ","a","n","d"," ","3"," ","i","n"," ","t","o","t","a","l">>, <<"1","2"," ","l","e","f","t"," ","3">>,
     <<"3"," ","l","e","f","t"," ","1","2">>, <<"1","2"," ","e","a","c","h"," ","3">>, <<"1","2"," ","s","p","l","i","t"," ","3">>, <<"1","2"," ","s","p","l","i","t"," ","0">>,
     <<"1","2"," ","t","o","t","a","l"," ","0">>, <<"3"," ","f","e","a","t","h","e","r","s"," ","1","2">>, <<"4"," ","x","5"," ","3"," ","t","i","m","e","s"," ","2">>}

\* correct answers: values at, near and above the ceiling of grade 1, zero,
\* units of several shapes, and a text with no number
GeneratorAnswers ==
    {<<"0">>, <<"7"," ","f","e","a","t","h","e","r","s">>, <<"1","9">>, <<"2","4"," ","P","o","t","i","o","n","s">>, <<"3","0"," ","c","r","y","s","t","a","l"," ","v","i","a","l","s">>,
     <<"1","5"," ","d","r","o","p","s">>, <<"n","o","n","e">>}

Grades == 1..6

InitGenerate ==
    /\ pc = "generate"
    /\ variant \in {"batch", "server"}
    /\ question_text \in GeneratorTexts
    /\ correct_answer \in GeneratorAnswers
    /\ grade \in Grades
    /\ numbers = <<>>
    /\ choices = <<>>
    /\ result = NoResult
    /\ IdleGenerator
    /\ IdleBatch
    /\ IdleServer

\* lines 127-198 (batch), 60-133 (server): extraction, pool, filter
BuildPool ==
    /\ pc = "generate"
    /\ numbers' = IF question_text = NoneText THEN <<>> ELSE extract_numbers(question_text)
    /\ IF \/ question_text = NoneText     \* TypeError, caught: return None
          \/ correct_answer = NoneText
          \/ extract_numbers(correct_answer) = <<>>
       THEN /\ result' = ReturnedNone
            /\ pc' = "returned"
            /\ UNCHANGED distractors
       ELSE /\ distractors' = RemoveInvalid(
                   CandidatePool(variant, question_text, numbers', CorrectOf(correct_answer)),
                   CorrectOf(correct_answer), grade_limits(grade))
            /\ pc' = "backfill"
            /\ UNCHANGED result
    /\ UNCHANGED <<question_text, correct_answer, grade, choices, offset,
                   distractor_list, final_distractors, variant,
                   batchVars, serverVars>>

\* one turn of "while len(distractors) < 3" with random.choice giving o
Draw(o) ==
    /\ pc = "backfill"
    /\ Cardinality(distractors) < 3
    /\ offset' = o
    /\ LET candidate == CorrectOf(correct_answer) + o
       IN  distractors' =
             IF Accepted(candidate, CorrectOf(correct_answer), grade_limits(grade))
             THEN distractors \cup {candidate}
             ELSE distractors
    /\ UNCHANGED <<pc, question_text, numbers, correct_answer, grade, choices,
                   distractor_list, final_distractors, variant, result,
                   batchVars, serverVars>>

\* the loop is left; selection, unit, formatting
Select ==
    /\ pc = "backfill"
    /\ Cardinality(distractors) >= 3
    /\ \E lst \in ListOrders(distractors,
                             IF Len(numbers) >= 2 THEN Canonical(variant, numbers) ELSE {}) :
          /\ distractor_list' = lst
          /\ final_distractors' = SelectBest(variant, numbers, lst)
          /\ result' = ReturnedList(FormattedChoices(variant, CorrectOf(correct_answer),
                                        final_distractors', correct_answer))
    /\ pc' = IF variant = "batch" THEN "shuffle" ELSE "returned"
    /\ UNCHANGED <<question_text, numbers, correct_answer, grade, choices,
                   distractors, offset, variant,
                   batchVars, serverVars>>

\* batch only: random.shuffle(choices); return choices.  The call is over
\* and its locals are gone.
Shuffle ==
    /\ pc = "shuffle"
    /\ \E perm \in ShuffleOrders(Len(result.choices)) :
          result' = ReturnedList([k \in 1..Len(result.choices) |-> result.choices[perm[k]]])
    /\ pc' = "returned"
    /\ distractors' = {}
    /\ offset' = 0
    /\ distractor_list' = <<>>
    /\ final_distractors' = <<>>
    /\ UNCHANGED <<question_text, numbers, correct_answer, grade, choices, variant,
                   batchVars, serverVars>>

DrawAny == \E k \in 1..Len(Offsets) : Draw(Offsets[k])

Next == BuildPool \/ DrawAny \/ Select \/ Shuffle

Spec == InitGenerate /\ [][Next]_vars
\* a draw that the loop accepts as a new member of the pool
AcceptedDraw == DrawAny /\ distractors' # distractors

----------------------------------------------------------------------------
(* Claims about generate_smart_distractors, checked under Spec *)

\* the leading integer of each returned choice
ChoiceValues(cs) == [k \in 1..Len(cs) |-> extract_numbers(cs[k])[1]]

\* C1: a returned result holds exactly 3 distractor values, pairwise
\* distinct, each different from the correct value c, each > 0 and each <= the
\* ceiling of the grade (the batch result holds the correct value as a 4th
\* choice).
C1_ThreeValidDistractors ==
    (pc = "returned" /\ result.kind = "list")
    => LET c == CorrectOf(correct_answer)
           vals == ChoiceValues(result.choices)
           ds == {k \in 1..Len(vals) : vals[k] # c}
       IN  /\ Len(vals) = IF variant = "batch" THEN 4 ELSE 3
           /\ Cardinality(ds) = 3
           /\ \A i, j \in ds : i # j => vals[i] # vals[j]
           /\ \A k \in ds : vals[k] > 0
           /\ \A k \in ds : grade_limits(grade).finite => vals[k] <= grade_limits(grade).max

\* a result was returned after backfill draws, with a distractor equal to the
\* ceiling of grade 1
C1_Witness ==
    /\ pc = "returned"
    /\ result.kind = "list"
    /\ variant = "server"
    /\ offset # 0
    /\ grade = 1
    /\ \E k \in 1..Len(result.choices) : ChoiceValues(result.choices)[k] = 20

\* C2: for every text, every correct answer with an integer and every grade
\* the call terminates: under fair draws the backfill loop reaches 3 accepted
\* distractors and a result is returned.  random.choice gives every offset
\* again and again, so the loop ends exactly when, wherever it stands with
\* fewer than 3 members, some draw still adds a member to the pool.
C2_BackfillTerminates ==
    (pc = "backfill" /\ Cardinality(distractors) < 3) => ENABLED AcceptedDraw

----------------------------------------------------------------------------
(* Math validator (batch class) *)

Verdict(valid, reason) == [valid |-> valid, reason |-> reason]

\* the validator with the fault handler returning False
ValidateFailClosed(text, answer) ==
    IF text = NoneText THEN Verdict(FALSE, "Validation error")
    ELSE LET r == detect_operation_and_calculate(text, extract_numbers(text))
         IN  IF r.value = None THEN Verdict(TRUE, "Cannot validate")
             ELSE IF answer = NoneText THEN Verdict(FALSE, "Validation error")
             ELSE IF extract_numbers(answer) = <<>> THEN Verdict(TRUE, "No number in correct answer")
             ELSE IF extract_numbers(answer)[1] = r.value[1] THEN Verdict(TRUE, "Math correct")
             ELSE Verdict(FALSE, "Math error")

\* validate_math_comprehensive(question_text, choices, correct_answer); the
\* choices are not read
validate_math_comprehensive(text, answer) ==
    IF text = NoneText THEN Verdict(TRUE, "Validation error")
    ELSE LET r == detect_operation_and_calculate(text, extract_numbers(text))
         IN  IF r.value = None THEN Verdict(TRUE, "Cannot validate")
             ELSE IF answer = NoneText THEN Verdict(TRUE, "Validation error")
             ELSE IF extract_numbers(answer) = <<>> THEN Verdict(TRUE, "No number in correct answer")
             ELSE IF extract_numbers(answer)[1] = r.value[1] THEN Verdict(TRUE, "Math correct")
             ELSE Verdict(FALSE, "Math error")

ValidatorTexts == GeneratorTexts \cup {<<"H","o","w"," ","m","a","n","y"," ","m","o","r","e"," ","t","h","a","n"," ","9"," ","i","s"," ","1","5">>, NoneText}

ValidatorAnswers ==
    GeneratorAnswers \cup {<<"9"," ","f","e","a","t","h","e","r","s">>, <<"1","5">>, <<"3","6"," ","p","o","t","i","o","n","s">>, <<"4","k","g">>, NoneText}

InitValidate ==
    /\ pc = "validate"
    /\ variant = "batch"
    /\ question_text \in ValidatorTexts
    /\ correct_answer \in ValidatorAnswers
    /\ grade = 1
    /\ numbers = <<>>
    /\ choices = <<>>
    /\ result = NoResult
    /\ IdleGenerator
    /\ IdleBatch
    /\ IdleServer

Validate ==
    /\ pc = "validate"
    /\ result' = validate_math_comprehensive(question_text, correct_answer)
    /\ pc' = "validated"
    /\ UNCHANGED <<question_text, numbers, correct_answer, grade, choices,
                   distractors, offset, distractor_list, final_distractors, variant,
                   batchVars, serverVars>>

NextValidate == Validate

SpecValidate == InitValidate /\ [][NextValidate]_vars

\* C6: the validator is fail-open: it returns invalid if and only if the
\* classifier produced a value for the question text, the answer text
\* contains an integer, and the first integer of the answer differs from the
\* classifier's value; otherwise (no value, no number, equal values, an
\* internal fault) it returns valid.
C6_FailOpen ==
    pc = "validated"
    => LET fault == question_text = NoneText \/ correct_answer = NoneText
           classified == IF question_text = NoneText THEN Returned(None, "")
                         ELSE detect_operation_and_calculate(question_text,
                                                             extract_numbers(question_text))
           hasValue == classified.value # None
           hasNumber == correct_answer # NoneText /\ extract_numbers(correct_answer) # <<>>
       IN  /\ (~result.valid) <=> (/\ hasValue
                                   /\ hasNumber
                                   /\ extract_numbers(correct_answer)[1] # classified.value[1])
           /\ fault => result.valid

\* a fault inside the validator (the answer element has no text) after the
\* classifier produced a value, and a mismatch that was reported
C6_Witness ==
    /\ pc = "validated"
    /\ correct_answer = NoneText
    /\ question_text # NoneText
    /\ detect_operation_and_calculate(question_text, extract_numbers(question_text)).value # None
    /\ result.valid

----------------------------------------------------------------------------
(* Triviality detector (batch class) *)

\* the first integers of the choices that hold a digit
RECURSIVE NumericChoices(_)
NumericChoices(cs) ==
    IF cs = <<>> THEN <<>>
    ELSE (IF DigitRuns(Head(cs)) # <<>> THEN <<IntOf(DigitRuns(Head(cs))[1])>> ELSE <<>>)
         \o NumericChoices(Tail(cs))

\* sorted(numeric_choices)
RECURSIVE Sorted(_)
Sorted(ns) ==
    IF ns = <<>> THEN <<>>
    ELSE LET i == CHOOSE i \in 1..Len(ns) : \A j \in 1..Len(ns) : ns[i] <= ns[j]
         IN  <<ns[i]>> \o Sorted(SubSeq(ns, 1, i - 1) \o SubSeq(ns, i + 1, Len(ns)))

\* the test of the differences and of the range
TightlyClusteredNoRange(sorted_choices) ==
    \A i \in 1..(Len(sorted_choices) - 1) : sorted_choices[i + 1] - sorted_choices[i] <= 2

TightlyClustered(sorted_choices) ==
    /\ \A i \in 1..(Len(sorted_choices) - 1) : sorted_choices[i + 1] - sorted_choices[i] <= 2
    /\ MaxOf(sorted_choices) - MinOf(sorted_choices) <= 6

has_trivial_distractors(cs) ==
    IF \E k \in 1..Len(cs) : cs[k] = NoneText
    THEN FALSE                                  \* TypeError, caught: return False
    ELSE LET numeric_choices == NumericChoices(cs)
         IN  IF Len(numeric_choices) >= 3
             THEN TightlyClustered(Sorted(numeric_choices))
             ELSE FALSE

ChoiceTexts ==
    {<<"5"," ","p","o","t","i","o","n","s">>, <<"7","k","g">>, <<"9">>, <<"1","1"," ","d","r","o","p","s">>, <<"1","3">>, <<"n","o","n","e">>, NoneText}

InitTrivial ==
    /\ pc = "trivial"
    /\ variant = "batch"
    /\ choices \in SeqsUpTo(ChoiceTexts, MaxChoices)
    /\ question_text = <<>>
    /\ correct_answer = <<>>
    /\ grade = 1
    /\ numbers = <<>>
    /\ result = NoResult
    /\ IdleGenerator
    /\ IdleBatch
    /\ IdleServer

CheckTrivial ==
    /\ pc = "trivial"
    /\ result' = has_trivial_distractors(choices)
    /\ pc' = "checked"
    /\ UNCHANGED <<question_text, numbers, correct_answer, grade, choices,
                   distractors, offset, distractor_list, final_distractors, variant,
                   batchVars, serverVars>>

NextTrivial == CheckTrivial

SpecTrivial == InitTrivial /\ [][NextTrivial]_vars

\* the first integer of a choice that holds one
FirstInteger(choice) == IntOf(DigitRuns(choice)[1])

\* C7: the detector returns true if and only if at least 3 choices contain an
\* integer and, over the sorted first integers of those choices, every
\* adjacent gap is <= 2 and max - min <= 6; with fewer than 3 numeric choices
\* or on a parsing fault it returns false.
C7_TrivialIff ==
    pc = "checked"
    => LET fault == \E k \in 1..Len(choices) : choices[k] = NoneText
           numeric == {k \in 1..Len(choices) :
                          choices[k] # NoneText /\ \E i \in 1..Len(choices[k]) : IsDigit(choices[k][i])}
           values == {FirstInteger(choices[k]) : k \in numeric}
           \* adjacent in sorted order: every value but the largest has a
           \* value above it at distance <= 2
           gapsSmall == \A x \in values :
                           (\E y \in values : y > x) => \E y \in values : y > x /\ y - x <= 2
           rangeSmall == \A x, y \in values : y - x <= 6
       IN  /\ result = (~fault /\ Cardinality(numeric) >= 3 /\ gapsSmall /\ rangeSmall)
           /\ (fault \/ Cardinality(numeric) < 3) => result = FALSE

\* 5 numeric choices with every adjacent gap 2 and a range of 8 were judged
\* not trivial
C7_Witness ==
    /\ pc = "checked"
    /\ Len(choices) = 5
    /\ \A k \in 1..5 : choices[k] \notin {NoneText, <<"n","o","n","e">>}
    /\ {FirstInteger(choices[k]) : k \in 1..5} = {5, 7, 9, 11, 13}
    /\ result = FALSE

----------------------------------------------------------------------------
(* Full-question assembly: PotionImprover.improve_question *)

\* the characters in the order of their code points
CharOrder == <<" ",".","0","1","2","3","4","5","6","7","8","9",":","?","A","B","C","D","E","F","G","H","I","J","K","L","M","N","O","P","Q","R","S","T","U","V","W","X","Y","Z","_","a","b","c","d","e","f","g","h","i","j","k","l","m","n","o","p","q","r","s","t","u","v","w","x","y","z","|">>

Ord(ch) == CHOOSE i \in 1..Len(CharOrder) : CharOrder[i] = ch

\* s <= t for Python strings
RECURSIVE StrLeq(_, _)
StrLeq(a, b) ==
    IF a = <<>> THEN TRUE
    ELSE IF b = <<>> THEN FALSE
    ELSE IF Head(a) = Head(b) THEN StrLeq(Tail(a), Tail(b))
    ELSE Ord(Head(a)) < Ord(Head(b))

\* sorted(choices)
RECURSIVE SortedTexts(_)
SortedTexts(cs) ==
    IF cs = <<>> THEN <<>>
    ELSE LET i == CHOOSE i \in 1..Len(cs) : \A j \in 1..Len(cs) : StrLeq(cs[i], cs[j])
         IN  <<cs[i]>> \o SortedTexts(SubSeq(cs, 1, i - 1) \o SubSeq(cs, i + 1, Len(cs)))

\* '|'.join(texts)
RECURSIVE JoinBar(_)
JoinBar(ts) ==
    IF ts = <<>> THEN <<>>
    ELSE IF Len(ts) = 1 THEN ts[1]
    ELSE ts[1] \o <<"|">> \o JoinBar(Tail(ts))

\* the digest of the content; MD5 is taken to be free of collisions
create_question_hash(text, cs) == [md5 |-> text \o <<"|">> \o JoinBar(SortedTexts(cs))]

\* len(re.findall(r'\b\w+\b', text)): the maximal runs of word characters
RECURSIVE CountWordsFrom(_, _)
CountWordsFrom(s, i) ==
    IF i > Len(s) THEN 0
    ELSE IF IsWordChar(s[i]) /\ (i = 1 \/ ~IsWordChar(s[i - 1]))
         THEN 1 + CountWordsFrom(s, i + 1)
         ELSE CountWordsFrom(s, i + 1)

count_words(text) == CountWordsFrom(text, 1)

\* str.strip()
RECURSIVE LStrip(_)
LStrip(s) == IF s # <<>> /\ IsSpace(Head(s)) THEN LStrip(Tail(s)) ELSE s

RECURSIVE RStrip(_)
RStrip(s) ==
    IF s # <<>> /\ IsSpace(s[Len(s)]) THEN RStrip(SubSeq(s, 1, Len(s) - 1)) ELSE s

Strip(s) == RStrip(LStrip(s))

IsLabel(ch) == ch \in {"A", "B", "C", "D"}

\* one [A-D][:.]?\s* at the head of s, if there is one
DropLabel(s) ==
    IF s # <<>> /\ IsLabel(Head(s))
    THEN LET t == Tail(s)
             u == IF t # <<>> /\ Head(t) \in {":", "."} THEN Tail(t) ELSE t
         IN  LStrip(u)
    ELSE s

\* re.sub(r'^[A-D][:.]?\s*([A-D][:.]?\s*)?', '', choice_text.strip()).strip()
clean_choice_text(choice_text) ==
    LET s == Strip(choice_text)
    IN  IF s # <<>> /\ IsLabel(Head(s)) THEN Strip(DropLabel(DropLabel(s))) ELSE Strip(s)

\* str.split('.')
RECURSIVE SplitDotFrom(_, _, _)
SplitDotFrom(s, i, part) ==
    IF i > Len(s) THEN <<part>>
    ELSE IF s[i] = "." THEN <<part>> \o SplitDotFrom(s, i + 1, <<>>)
    ELSE SplitDotFrom(s, i + 1, Append(part, s[i]))

SplitDot(s) == SplitDotFrom(s, 1, <<>>)

valid_domains(g) ==
    CASE g \in {1, 2} -> {<<"O","A">>, <<"N","B","T">>, <<"M","D">>, <<"G">>}
      [] g \in {3, 4, 5} -> {<<"O","A">>, <<"N","B","T">>, <<"N","F">>, <<"M","D">>, <<"G">>}
      [] g = 6 -> {<<"R","P">>, <<"E","E">>, <<"G">>, <<"S","P">>, <<"N","S">>}
      [] OTHER -> {}

\* check 1, standard alignment: "" when it passes, else the reason
StandardAlignment(g, dom, std) ==
    LET parts == SplitDot(std)
    IN  IF ~IsDigits(Strip(parts[1])) \/ Len(parts) < 2   \* ValueError, IndexError
        THEN "Invalid standard format"
        ELSE IF IntOf(Strip(parts[1])) # g \/ parts[2] # dom
        THEN "Invalid standard alignment"
        ELSE IF dom \notin valid_domains(g) THEN "Invalid domain for grade"
        ELSE ""

\* checks 2 to 4: "" when they pass, else the reason
ContentChecks(g, text, answer) ==
    IF \E k \in 1..Len(extract_numbers(text)) :
            ~AtMost(extract_numbers(text)[k], grade_limits(g))
    THEN "Numbers exceed grade limits"
    ELSE IF count_words(text) > 30 THEN "Question too long"
    ELSE IF ~validate_math_comprehensive(text, answer).valid THEN "Mathematical error"
    ELSE ""

Excluded(reason, exc, passed) ==
    [kind |-> "excluded", reason |-> reason, exc |-> exc, passed |-> passed,
     choices |-> <<>>, key |-> "", answer |-> <<>>]

Assembled(cs, key, answer) ==
    [kind |-> "question", reason |-> "Successfully improved to production quality",
     exc |-> "", passed |-> TRUE, choices |-> cs, key |-> key, answer |-> answer]

choice_labels == <<"A", "B", "C", "D">>

\* lines 318-369 on the choice list cs
Assembly(cs, answer) ==
    IF answer = NoneText /\ Len(cs) > 0
    THEN Excluded("Processing error", "AttributeError", TRUE)      \* line 343
    ELSE IF Len(cs) > Len(choice_labels)
    THEN Excluded("Processing error", "IndexError", TRUE)          \* line 341
    ELSE IF answer = NoneText
    THEN Excluded("Processing error", "AttributeError", TRUE)      \* line 349
    ELSE
    LET cleaned_choices == [k \in 1..Len(cs) |-> clean_choice_text(cs[k])]
        target == Strip(clean_choice_text(answer))
        hits == {k \in 1..Len(cs) : Strip(cleaned_choices[k]) = target}
    IN  IF hits # {}
        THEN Assembled(cleaned_choices,
                       choice_labels[CHOOSE k \in hits : \A j \in hits : j <= k],
                       clean_choice_text(answer))
        ELSE IF Len(cs) = 0
        THEN Excluded("Processing error", "IndexError", TRUE)      \* line 349
        ELSE Assembled([cleaned_choices EXCEPT ![1] = clean_choice_text(answer)],
                       "A", clean_choice_text(answer))

\* a text of 31 words
LongText == Join([k \in 1..31 |-> <<"g","o">>])

AssemblyTexts == {<<"1","2"," ","a","n","d"," ","3"," ","i","n"," ","t","o","t","a","l">>, <<"f","e","a","t","h","e","r","s">>, <<"2","5"," ","a","n","d"," ","3"," ","i","n"," ","t","o","t","a","l">>, LongText}

AssemblyAnswers == {<<"1","5"," ","d","r","o","p","s">>, <<"B","."," ","1","5"," ","D","r","o","p","s">>, <<"2","8"," ","d","r","o","p","s">>, <<"n","o","n","e">>, NoneText}

\* choice lists: none, too many, a match in several places, no match, two
\* matches, labelled texts, tightly clustered values, an element with no text
AssemblyChoices ==
    {<<>>,
     <<<<"1","5"," ","d","r","o","p","s">>, <<"3"," ","d","r","o","p","s">>, <<"4","0"," ","d","r","o","p","s">>, <<"9"," ","d","r","o","p","s">>>>,
     <<<<"3"," ","d","r","o","p","s">>, <<"4","0"," ","d","r","o","p","s">>, <<"9"," ","d","r","o","p","s">>, <<"1","5"," ","d","r","o","p","s">>>>,
     <<<<"3"," ","d","r","o","p","s">>, <<"1","5"," ","d","r","o","p","s">>, <<"4","0"," ","d","r","o","p","s">>, <<"1","5"," ","d","r","o","p","s">>>>,
     <<<<"3"," ","d","r","o","p","s">>, <<"4","0"," ","d","r","o","p","s">>, <<"9"," ","d","r","o","p","s">>, <<"3","6"," ","d","r","o","p","s">>>>,
     <<<<"3"," ","d","r","o","p","s">>, <<"4","0"," ","d","r","o","p","s">>>>,
     <<<<"3"," ","d","r","o","p","s">>, <<"4","0"," ","d","r","o","p","s">>, <<"9"," ","d","r","o","p","s">>, <<"1","5"," ","d","r","o","p","s">>, <<"2","0"," ","d","r","o","p","s">>>>,
     <<<<"A","."," ","1","3"," ","d","r","o","p","s">>, <<"B",":"," ","1","4"," ","d","r","o","p","s">>, <<"C"," ","1","5"," ","d","r","o","p","s">>, <<"D","."," ","B","."," ","1","6"," ","d","r","o","p","s">>>>,
     <<<<"1","4">>, <<"1","5"," ","d","r","o","p","s">>, <<"1","6">>, <<"1","7">>>>,
     <<<<"2","7"," ","d","r","o","p","s">>, <<"2","8"," ","d","r","o","p","s">>, <<"2","9"," ","d","r","o","p","s">>, <<"3","0"," ","d","r","o","p","s">>, <<"3","1"," ","d","r","o","p","s">>>>,
     <<<<"n","o","n","e">>, NoneText>>}

\* (grade, domain, standard) of a record
AssemblyMeta ==
    {<<1, <<"O","A">>, <<"1",".","O","A",".","1">>>>, <<6, <<"R","P">>, <<"6",".","R","P",".","1">>>>, <<6, <<"O","A">>, <<"6",".","O","A",".","1">>>>,
     <<1, <<"O","A">>, <<"2",".","O","A",".","1">>>>, <<1, <<"O","A">>, <<"f","i","r","s","t">>>>}

\* a question text with the multiset of its choice texts
BagOf(cs) == [t \in Range(cs) |-> Cardinality({k \in 1..Len(cs) : cs[k] = t})]

CallKey(text, cs) == <<text, BagOf(cs)>>

InitAssemble ==
    /\ pc = "improve"
    /\ variant = "batch"
    /\ \E m \in AssemblyMeta : grade = m[1] /\ domain = m[2] /\ standard = m[3]
    /\ question_text \in AssemblyTexts
    /\ correct_answer \in AssemblyAnswers
    /\ choices \in AssemblyChoices
    /\ seen_questions \in {{}, {create_question_hash(<<"f","e","a","t","h","e","r","s">>, <<>>)}}
    /\ calls = IF seen_questions = {} THEN {} ELSE {CallKey(<<"f","e","a","t","h","e","r","s">>, <<>>)}
    /\ new_question = NoQuestion
    /\ numbers = <<>>
    /\ result = NoResult
    /\ IdleGenerator
    /\ IdleServer

\* lines 257-310: duplicate check, validation, triviality check
CheckQuestion ==
    /\ pc = "improve"
    /\ calls' = calls \cup {CallKey(question_text, choices)}
    /\ IF \E k \in 1..Len(choices) : choices[k] = NoneText
       THEN \* sorted / join raise TypeError before the registry is read
            /\ new_question' = Excluded("Processing error", "TypeError", FALSE)
            /\ pc' = "done"
            /\ UNCHANGED seen_questions
       ELSE IF create_question_hash(question_text, choices) \in seen_questions
       THEN /\ new_question' = Excluded("Duplicate question", "", FALSE)
            /\ pc' = "done"
            /\ UNCHANGED seen_questions
       ELSE /\ seen_questions' = seen_questions \cup {create_question_hash(question_text, choices)}
            /\ LET reason == IF StandardAlignment(grade, domain, standard) # ""
                             THEN StandardAlignment(grade, domain, standard)
                             ELSE ContentChecks(grade, question_text, correct_answer)
               IN  IF reason # ""
                   THEN /\ new_question' = Excluded(reason, "", FALSE)
                        /\ pc' = "done"
                   ELSE /\ UNCHANGED new_question
                        /\ pc' = IF has_trivial_distractors(choices) THEN "generate"
                                 ELSE "assemble"
    /\ UNCHANGED <<question_text, numbers, correct_answer, grade, choices,
                   distractors, offset, distractor_list, final_distractors, variant, result,
                   domain, standard, serverVars>>

\* lines 311-369: the regenerated choices replace the record's when there are
\* any; cleaning, labels, answer key
Assemble ==
    /\ pc \in {"assemble", "returned"}
    /\ choices' = IF pc = "returned" /\ result.kind = "list" THEN result.choices ELSE choices
    /\ new_question' = Assembly(choices', correct_answer)
    /\ pc' = "done"
    /\ UNCHANGED <<question_text, numbers, correct_answer, grade,
                   distractors, offset, distractor_list, final_distractors, variant, result,
                   domain, standard, seen_questions, calls, serverVars>>

NextAssemble == CheckQuestion \/ BuildPool \/ DrawAny \/ Select \/ Shuffle \/ Assemble

SpecAssemble == InitAssemble /\ [][NextAssemble]_vars

----------------------------------------------------------------------------
(* Claims about the assembly step, checked under SpecAssemble *)

\* the choices whose cleaned text equals the cleaned correct answer
MatchingChoices(cs, answer) ==
    {k \in 1..Len(cs) : clean_choice_text(cs[k]) = clean_choice_text(answer)}

\* C8: in the assembly step, when the cleaned text of some choice equals the
\* cleaned correct answer, the emitted key is the label of such a choice; when
\* no choice matches, choice A is replaced by the cleaned correct answer and
\* the key is "A"; in both cases the choice carrying the key has exactly the
\* answer's text.
C8_KeyOnMatchingChoice ==
    (pc = "done" /\ new_question.passed /\ correct_answer # NoneText)
    => /\ new_question.kind = "question"
       /\ new_question.answer = clean_choice_text(correct_answer)
       /\ \E k \in 1..Len(new_question.choices) :
             /\ choice_labels[k] = new_question.key
             /\ new_question.choices[k] = new_question.answer
             /\ MatchingChoices(choices, correct_answer) # {}
                => k \in MatchingChoices(choices, correct_answer)
       /\ MatchingChoices(choices, correct_answer) = {}
          => /\ new_question.key = "A"
             /\ new_question.choices =
                  [[k \in 1..Len(choices) |-> clean_choice_text(choices[k])]
                      EXCEPT ![1] = clean_choice_text(correct_answer)]

\* C9: a question that passes the duplicate check, the alignment check, the
\* grade limit, the word count and the math validation is always returned as
\* an assembled question element, never as a "Processing error" exclusion,
\* whatever the number of choices of the record.
C9_AssemblyNeverFails ==
    (pc = "done" /\ new_question.passed) => new_question.kind = "question"

----------------------------------------------------------------------------
(* Single-question entry point (server class): main and                    *)
(* improve_question_distractors                                            *)

\* line 232, "import sys" inside main, makes sys a local name of the whole
\* function body; nothing has assigned it when line 227 reads it
SysBoundAtRead == FALSE

\* the JSON object main prints; keys is the set of keys it holds
Response(success, keys, cs, key, error) ==
    [kind |-> "response", success |-> success, keys |-> keys,
     choices |-> cs, answerKey |-> key, error |-> error]

\* lines 244-250
error_result(e) == Response(FALSE, {"success", "error", "message"}, <<>>, "", e)

\* lines 216-221
ImproveError(e) == Response(FALSE, {"success", "error", "message"}, <<>>, "", e)

\* all_choices.index(correct_answer)
IndexOf(lst, x) == CHOOSE k \in 1..Len(lst) : lst[k] = x /\ \A j \in 1..(k - 1) : lst[j] # x

\* lines 200-207: chr(65 + correct_index) and the success dictionary
ImproveSuccess(all_choices, answer) ==
    Response(TRUE, {"success", "choices", "answerKey", "message"}, all_choices,
             choice_labels[IndexOf(all_choices, answer)], "")

\* lines 209-214: the request's own choices, its answerKey or "A"
ImproveKeep(current_choices) ==
    Response(FALSE, {"success", "choices", "answerKey", "message"}, current_choices, "A", "")

\* the choices of a request (the requests carry no answerKey)
RequestChoices ==
    {<<>>, <<<<"1","5"," ","d","r","o","p","s">>, <<"3"," ","d","r","o","p","s">>, <<"4","0"," ","d","r","o","p","s">>, <<"9"," ","d","r","o","p","s">>>>}

InitMain ==
    /\ entry \in {"main", "improve_question_distractors"}
    /\ variant = "server"
    /\ response = NoResponse
    /\ numbers = <<>>
    /\ result = NoResult
    /\ IdleGenerator
    /\ IdleBatch
    /\ IF entry = "main"
       THEN /\ pc = "main"
            /\ stdin \in {"empty", "malformed", "array", "request"}
       ELSE /\ pc = "call"                   \* stdin: the value passed as question_data
            /\ stdin \in {"array", "request"}
    /\ IF stdin \in {"empty", "malformed", "array"}
       THEN /\ question_text = <<>>
            /\ correct_answer = <<>>
            /\ grade = 1
            /\ choices = <<>>
       ELSE /\ question_text \in GeneratorTexts
            /\ correct_answer \in GeneratorAnswers
            /\ grade \in Grades
            /\ choices \in RequestChoices

\* lines 225-242: the body of main's try block up to the call
MainStart ==
    /\ pc = "main"
    /\ IF ~SysBoundAtRead
       THEN /\ response' = error_result("UnboundLocalError")     \* line 227
            /\ pc' = "exited"
       ELSE IF stdin = "empty"
       THEN /\ response' = error_result("ValueError")            \* line 229
            /\ pc' = "exited"
       ELSE IF stdin = "malformed"
       THEN /\ response' = error_result("JSONDecodeError")       \* line 235
            /\ pc' = "exited"
       ELSE /\ UNCHANGED response
            /\ pc' = "call"
    /\ UNCHANGED <<question_text, numbers, correct_answer, grade, choices,
                   distractors, offset, distractor_list, final_distractors, variant, result,
                   batchVars, entry, stdin>>

\* lines 185-191: the fields of the request, then generate_smart_distractors;
\* a JSON value that is no object has no get (lines 216-221)
ImproveCall ==
    /\ pc = "call"
    /\ IF stdin = "array"
       THEN /\ response' = ImproveError("AttributeError")
            /\ pc' = "exited"
       ELSE /\ UNCHANGED response
            /\ pc' = "generate"
    /\ UNCHANGED <<question_text, numbers, correct_answer, grade, choices,
                   distractors, offset, distractor_list, final_distractors, variant, result,
                   batchVars, entry, stdin>>

\* lines 193-214 and line 242: the answer joins the distractors, the list is
\* shuffled, the key is the letter of the answer's first position
ImproveReturn ==
    /\ pc = "returned"
    /\ entry # "none"
    /\ IF result.kind = "list"
       THEN \E perm \in ShuffleOrders(Len(result.choices) + 1) :
               LET joined == <<correct_answer>> \o result.choices
                   all_choices == [k \in 1..Len(joined) |-> joined[perm[k]]]
               IN  response' = ImproveSuccess(all_choices, correct_answer)
       ELSE response' = ImproveKeep(choices)
    /\ pc' = "exited"
    /\ distractors' = {}
    /\ offset' = 0
    /\ distractor_list' = <<>>
    /\ final_distractors' = <<>>
    /\ UNCHANGED <<question_text, numbers, correct_answer, grade, choices, variant, result,
                   batchVars, entry, stdin>>

NextMain == MainStart \/ ImproveCall \/ BuildPool \/ DrawAny \/ Select \/ ImproveReturn

SpecMain == InitMain /\ [][NextMain]_vars

----------------------------------------------------------------------------
(* Claims about the entry point, checked under SpecMain *)

\* the backfill loop of a request can reach 3 members
BackfillCompletes(text, answer, g) ==
    LET c == CorrectOf(answer)
        pool == RemoveInvalid(CandidatePool("server", text, extract_numbers(text), c),
                              c, grade_limits(g))
        drawn == {c + Offsets[k] : k \in 1..Len(Offsets)}
    IN  Cardinality(pool \cup {d \in drawn : Accepted(d, c, grade_limits(g))}) >= 3

\* C11: for every input the single-question interface ends with one
\* well-formed response; every response has a boolean success and a message,
\* and every response with success false also carries an error field, the
\* case of a correct answer with no number included.
C11_WellFormedResponse ==
    (pc = "exited")
    => /\ response.kind = "response"
       /\ response.success \in BOOLEAN
       /\ {"success", "message"} \subseteq response.keys
       /\ ~response.success => "error" \in response.keys

\* C10: main, given a well-formed request whose correctAnswer holds an
\* integer and whose backfill can complete, prints a response with success
\* true, 4 choices made of the correctAnswer and the 3 generated distractors,
\* and an answerKey in A-D whose choice is the correctAnswer.
C10_MainSucceeds ==
    (/\ pc = "exited" /\ entry = "main" /\ stdin = "request"
     /\ extract_numbers(correct_answer) # <<>>
     /\ BackfillCompletes(question_text, correct_answer, grade))
    => /\ response.success
       /\ Len(response.choices) = 4
       /\ \E k \in 1..4 : /\ choice_labels[k] = response.answerKey
                          /\ response.choices[k] = correct_answer
       /\ \A k \in 1..Len(result.choices) :
             \E j \in 1..4 : response.choices[j] = result.choices[k]

\* the text of a choice after its first run of digits
UnitSuffix(s) ==
    LET starts == {i \in 1..Len(s) : IsDigit(s[i])}
    IN  IF starts = {} THEN s
        ELSE LET i == CHOOSE a \in starts : \A b \in starts : a <= b
             IN  SubSeq(s, RunEnd(s, i) + 1, Len(s))

\* the choices of a list all end in the same text after their integer
SameSuffix(cs) == \A j, k \in 1..Len(cs) : UnitSuffix(cs[j]) = UnitSuffix(cs[k])

\* C12: in every regenerated list of 4 choices handed to the caller (the list
\* returned by the batch generator, the choices of a successful response of
\* improve_question_distractors) the correct answer and the 3 distractors
\* carry one and the same unit suffix after their integer, whatever the text
\* of the correct answer.
C12_UniformUnit ==
    /\ (pc = "returned" /\ variant = "batch" /\ result.kind = "list")
       => SameSuffix(result.choices)
    /\ (pc = "exited" /\ response.success) => SameSuffix(response.choices)

----------------------------------------------------------------------------
(* SpecRegistry: process_xml_file hands one record after another to         *)
(* improve_question of one PotionImprover                                   *)

\* two texts of which one ends in "|" and a choice text of the other
RegistryTexts == {<<"7"," ","a","n","d"," ","5">>, <<"7"," ","a","n","d"," ","5","|","1","2">>}

\* the same two choices in both orders, one choice, and a tightly clustered
\* list that is regenerated
RegistryChoices ==
    {<<<<"9">>, <<"1","2">>>>, <<<<"1","2">>, <<"9">>>>, <<<<"9">>>>, <<<<"1">>, <<"2">>, <<"3">>>>}

\* a record that passes the alignment check and one that fails it
RegistryMeta == {<<1, <<"O","A">>, <<"1",".","O","A",".","1">>>>, <<1, <<"O","A">>, <<"2",".","O","A",".","1">>>>}

\* lines 259-264: the fields of a record
Record ==
    /\ \E m \in RegistryMeta : grade = m[1] /\ domain = m[2] /\ standard = m[3]
    /\ question_text \in RegistryTexts
    /\ correct_answer = <<"2">>
    /\ choices \in RegistryChoices

InitRegistry ==
    /\ pc = "improve"
    /\ variant = "batch"
    /\ Record
    /\ seen_questions = {}
    /\ calls = {}
    /\ new_question = NoQuestion
    /\ numbers = <<>>
    /\ result = NoResult
    /\ IdleGenerator
    /\ IdleServer

\* lines 386-390: the loop of process_xml_file takes the next record
NextRecord ==
    /\ pc = "done"
    /\ Cardinality(calls) < MaxCalls
    /\ pc' = "improve"
    /\ \E m \in RegistryMeta : grade' = m[1] /\ domain' = m[2] /\ standard' = m[3]
    /\ question_text' \in RegistryTexts
    /\ correct_answer' = <<"2">>
    /\ choices' \in RegistryChoices
    /\ new_question' = NoQuestion
    /\ numbers' = <<>>
    /\ result' = NoResult
    /\ distractors' = {}
    /\ offset' = 0
    /\ distractor_list' = <<>>
    /\ final_distractors' = <<>>
    /\ UNCHANGED <<variant, seen_questions, calls, serverVars>>

NextRegistry ==
    NextRecord \/ CheckQuestion \/ BuildPool \/ DrawAny \/ Select \/ Shuffle \/ Assemble

SpecRegistry == InitRegistry /\ [][NextRegistry]_vars

----------------------------------------------------------------------------
(* Claims about the duplicate registry, checked under SpecRegistry *)

\* the call that starts in this step is rejected as a duplicate
RejectedDuplicate ==
    new_question'.kind = "excluded" /\ new_question'.reason = "Duplicate question"

\* C13: across the calls of improve_question on one PotionImprover the
\* registry seen_questions never loses an entry; a call is rejected with
\* "Duplicate question" exactly when an earlier call had the same question
\* text and the same multiset of choice texts, whether that call was accepted
\* or rejected later; and a rejected duplicate leaves the registry unchanged.
C13_DuplicateIffSeenBefore ==
    [][/\ seen_questions \subseteq seen_questions'
       /\ (pc = "improve" /\ pc' # "improve")
          => /\ RejectedDuplicate <=> CallKey(question_text, choices) \in calls
             /\ RejectedDuplicate => seen_questions' = seen_questions]_vars

----------------------------------------------------------------------------
(* Further claims about generate_smart_distractors, checked under Spec *)

\* the perturbations of the correct value that depend on no operation
Perturbations(c) == {c + 2, c - 2, c * 2} \cup (IF c > 2 THEN {c \div 2} ELSE {})

\* C14: for every input whose correct answer has the leading integer c, texts
\* with fewer than 2 numbers included, the candidate pool before filtering
\* holds c+2, c-2, c*2 and (when c > 2) c // 2; so the filtered pool holds
\* every one of them that passes the filter, and no backfill draw is made when
\* at least 3 of them pass.
C14_PerturbationsInPool ==
    (pc = "backfill")
    => LET c == CorrectOf(correct_answer)
           passing == RemoveInvalid(Perturbations(c), c, grade_limits(grade))
       IN  /\ Perturbations(c) \subseteq CandidatePool(variant, question_text, numbers, c)
           /\ passing \subseteq distractors
           /\ offset # 0 => Cardinality(passing) < 3

\* the canonical wrong-operation results of the first two numbers
WrongOperationResults(ns) ==
    {ns[1] + ns[2], Abs(ns[1] - ns[2])}
    \cup (IF ns[2] # 0 THEN {ns[1] * ns[2], ns[1] \div ns[2]} ELSE {})

\* C15: with at least 2 numbers n0, n1 in the text, when one of the 3
\* returned distractors is none of n0+n1, |n0-n1|, n0*n1, n0//n1 (the last two
\* only when n1 # 0), every member of the filtered pool that is one of those
\* values is among the 3 returned; and in the selected sequence the canonical
\* values all come before the others.
C15_CanonicalFirst ==
    (pc \in {"shuffle", "returned"} /\ Len(final_distractors) = 3 /\ Len(numbers) >= 2)
    => LET canon == WrongOperationResults(numbers)
           returned == IF variant = "batch" THEN Tail(ChoiceValues(result.choices))
                       ELSE ChoiceValues(result.choices)
       IN  /\ returned = final_distractors
           /\ (\E k \in 1..3 : returned[k] \notin canon)
              => (distractors \cap canon) \subseteq Range(returned)
           /\ \A i, j \in 1..3 : (i < j /\ returned[j] \in canon) => returned[i] \in canon

\* the single-question class returned a canonical value followed by other
\* values, chosen from a pool of more than 3, for a text whose first number
\* is the smaller one
C15_Witness ==
    /\ pc = "returned"
    /\ variant = "server"
    /\ Len(numbers) >= 2
    /\ numbers[1] < numbers[2]
    /\ Cardinality(distractors) > 3
    /\ Len(final_distractors) = 3
    /\ final_distractors[1] \in WrongOperationResults(numbers)
    /\ final_distractors[3] \notin WrongOperationResults(numbers)

----------------------------------------------------------------------------
(* Further claims about the classifier, checked under SpecClassify *)

\* C16: only addition uses numbers beyond the first two: when the selected
\* operation is subtraction, multiplication or division, the operation and
\* the value returned for a list of at least 2 numbers are those returned for
\* any other list with the same first two numbers, so those returned for the
\* list of its first two numbers alone.
C16_FirstTwoNumbersDecide ==
    (/\ pc = "classified"
     /\ Len(numbers) >= 2
     /\ SelectedOperation(result) \in {"subtraction", "multiplication", "division"})
    => result = detect_operation_and_calculate(question_text, SubSeq(numbers, 1, 2))

----------------------------------------------------------------------------
(* Further claims about the assembly step, checked under SpecAssemble *)

\* the positions of the choices whose integer is c
WithValue(cs, c) == {k \in 1..Len(cs) : ChoiceValues(cs)[k] = c}

\* the call regenerated the choices
Regenerated == "kind" \in DOMAIN result /\ result.kind = "list"

\* C17: in every question assembled after its choices were regenerated,
\* exactly one emitted choice has the correct answer's integer, it is the one
\* carrying the answer key, and the other 3 emitted choices are the 3
\* generated distractors: putting the correct answer into choice A never
\* overwrites a distractor while another choice keeps the correct value.
C17_OneCorrectChoice ==
    (pc = "done" /\ new_question.kind = "question" /\ Regenerated)
    => LET c == CorrectOf(correct_answer)
           emitted == new_question.choices
           generated == {result.choices[k] : k \in 1..4 \ WithValue(result.choices, c)}
       IN  /\ Len(emitted) = 4
           /\ Cardinality(WithValue(emitted, c)) = 1
           /\ \A k \in WithValue(emitted, c) : choice_labels[k] = new_question.key
           /\ {emitted[k] : k \in 1..4 \ WithValue(emitted, c)} = generated
           /\ Cardinality(generated) = 3

====
